---- MODULE Spec2Model ----
(***************************************************************************)
(* Bare-metal driver of the FIR stereo AXI wrapper (fir_stereo.c/.h).      *)
(*                                                                         *)
(* A 32-bit word (u32) is the set of its bit positions that are 1, a       *)
(* subset of 0..31: the bitwise operators of C are then set operators, and *)
(* no word exceeds the integers of the model checker.  Addresses are byte  *)
(* addresses below 2^31 and are plain integers.                            *)
(*                                                                         *)
(* The register window behind the MMIO primitives is a memory: a read      *)
(* returns the word last written to the address.  Every API call records   *)
(* the ordered log of its MMIO accesses, its arguments, its return value   *)
(* and the state it started from.                                          *)
(***************************************************************************)
EXTENDS Integers, Sequences, FiniteSets

\* ------------------------------------------------------------------ bounds

\* Largest tap count and coefficient index of the general specification.
MaxTaps == 2

\* Allocated size of the coefficient arrays handed to FIR_LoadConfig.
MaxLen == 3

\* ------------------------------------------------------- 32-bit words (u32)

BitPos == 0..31

\* The word of a natural number below 2^31.
Word(n) == {k \in 0..30 : (n \div (2^k)) % 2 = 1}

RECURSIVE BitSum(_, _)
\* The number whose bits, among positions 0..k-1, are those of w (k <= 16).
BitSum(w, k) ==
    IF k = 0 THEN 0
    ELSE BitSum(w, k - 1) + (IF (k - 1) \in w THEN 2^(k - 1) ELSE 0)

\* a | b, a & b, ~a and a << k on u32.
Or32(a, b)  == a \cup b
And32(a, b) == a \cap b
Not32(a)    == BitPos \ a
Shl32(a, k) == {b + k : b \in a} \cap BitPos

\* (u32)Value for an s16 Value: the value modulo 2^32 (negative values come
\* out sign-extended).  2^32 + v is 2^31 + (2^31 + v).
S16ToU32(v) ==
    IF v >= 0 THEN Word(v)
    ELSE Word((2147483647 + v) + 1) \cup {31}

\* The low 16 bits read as an unsigned number: a (u16) cast for the (s16) one.
U32ToS16_Unsigned(w) == BitSum(w, 16)

\* (s16)w for a u32 w: the low 16 bits, read as two's complement.
U32ToS16(w) ==
    LET lo == BitSum(w, 16)
    IN  IF lo >= 32768 THEN lo - 65536 ELSE lo

\* ------------------------------------------------------ program constants

FIR_REG_CTRL_OFFSET  == 0
FIR_MEM_COEFF_OFFSET == 16

FIR_CTRL_ENABLE_BIT == Shl32(Word(1), 0)
FIR_CTRL_CLEAR_BIT  == Shl32(Word(1), 1)

\* xstatus.h (platform): XST_SUCCESS 0L, XST_FAILURE 1L,
\* XIL_COMPONENT_IS_READY 0x11111111U.
XST_SUCCESS == 0
XST_FAILURE == 1
XIL_COMPONENT_IS_READY == 286331153

\* ------------------------------------------------------------- input sets

\* Base addresses: the general specification uses the first one only.
Base0 == 64 * 16777216       \* 0x4000_0000
Base1 == 1084 * 1048576      \* 0x43C0_0000
AllBases == {Base0, Base1}

\* Tap counts, coefficient indices and values of the general specification.
TapCounts == 0..MaxTaps
Indices   == (0..(MaxTaps + 1)) \cup {2147483647}
Values    == {-16384, 4369}          \* 0xC000 (-0.5), 0x1111

\* The coefficient arrays: MaxLen elements, alternating between the two
\* values, starting with either.
ArrayA == [i \in 1..MaxLen |-> IF i % 2 = 1 THEN 4369 ELSE -16384]
ArrayB == [i \in 1..MaxLen |-> IF i % 2 = 1 THEN -16384 ELSE 4369]
Arrays == {ArrayA, ArrayB}

\* Tap counts of the scenarios (S1, S2: N = 8).
ScenarioTaps == {1, 8}

\* Address = Base + coefficient base + (index * 4 bytes); the product is a
\* u32 product, (index * 4) mod 2^32, written so that it stays below 2^31
\* for the indices of the model.
CoeffAddr(Base, TapIndex) ==
    Base + FIR_MEM_COEFF_OFFSET + ((TapIndex % 1073741824) * 4)

CtrlAddrs  == {b + FIR_REG_CTRL_OFFSET : b \in AllBases}
CoeffAddrs == {CoeffAddr(b, i) : b \in AllBases, i \in 0..(MaxTaps + 8)}
AddrSpace  == CtrlAddrs \cup CoeffAddrs

\* CTRL before the driver touches it: any combination of ENABLE and CLEAR,
\* with and without reserved bits set.
CtrlInit == {{}, {0}, {0, 1}, {1, 2, 31}}

\* A coefficient slot before the driver writes it: not the sign extension of
\* a 16-bit value, and different from slot to slot.
InitWord(a) == Word(a) \cup {15}

\* ------------------------------------------------------------------- state

VARIABLES
    inst,   \* the descriptor: [BaseAddress, NumTaps, IsReady]
    mem,    \* the register window: address -> word
    call,   \* the last API call: its name and arguments
    pre,    \* inst and mem when the last call started
    log,    \* the MMIO accesses of the last call, in order
    ret,    \* the value the last call returned (0 for a void function)
    ctx     \* the call in progress when calls run one access at a time

vars == <<inst, mem, call, pre, log, ret, ctx>>

\* ---------------------------------------------------------- MMIO primitives

\* A machine m is [mem, log]: the register window and the accesses so far.

Xil_Out32(m, Addr, Data) ==
    [mem |-> [m.mem EXCEPT ![Addr] = Data],
     log |-> Append(m.log, [op |-> "W", addr |-> Addr, data |-> Data])]

\* Xil_In32: the word read, and the machine after the read.
Xil_In32Val(m, Addr) == m.mem[Addr]
Xil_In32(m, Addr) ==
    [mem |-> m.mem,
     log |-> Append(m.log, [op |-> "R", addr |-> Addr, data |-> m.mem[Addr]])]

FIR_WriteReg(m, BaseAddr, Offset, Data) == Xil_Out32(m, BaseAddr + Offset, Data)

FIR_ReadRegVal(m, BaseAddr, Offset) == Xil_In32Val(m, BaseAddr + Offset)
FIR_ReadReg(m, BaseAddr, Offset) == Xil_In32(m, BaseAddr + Offset)

\* -------------------------------------------------------------- driver API

\* FIR_Enable writing the ENABLE bit alone instead of modifying the word read.
FIR_Enable_Overwrite(m, InstancePtr, Enable) ==
    LET m1     == FIR_ReadReg(m, InstancePtr.BaseAddress, FIR_REG_CTRL_OFFSET)
        NewVal == IF Enable # 0 THEN FIR_CTRL_ENABLE_BIT ELSE {}
    IN  FIR_WriteReg(m1, InstancePtr.BaseAddress, FIR_REG_CTRL_OFFSET, NewVal)

\* FIR_Enable that masks the reserved bits 2..31 off the word it read.
FIR_Enable_Masked(m, InstancePtr, Enable) ==
    LET RegVal == And32(FIR_ReadRegVal(m, InstancePtr.BaseAddress, FIR_REG_CTRL_OFFSET),
                        Or32(FIR_CTRL_ENABLE_BIT, FIR_CTRL_CLEAR_BIT))
        m1     == FIR_ReadReg(m, InstancePtr.BaseAddress, FIR_REG_CTRL_OFFSET)
        NewVal == IF Enable # 0
                  THEN Or32(RegVal, FIR_CTRL_ENABLE_BIT)
                  ELSE And32(RegVal, Not32(FIR_CTRL_ENABLE_BIT))
    IN  FIR_WriteReg(m1, InstancePtr.BaseAddress, FIR_REG_CTRL_OFFSET, NewVal)

FIR_Enable(m, InstancePtr, Enable) ==
    LET RegVal == FIR_ReadRegVal(m, InstancePtr.BaseAddress, FIR_REG_CTRL_OFFSET)
        m1     == FIR_ReadReg(m, InstancePtr.BaseAddress, FIR_REG_CTRL_OFFSET)
        NewVal == IF Enable # 0
                  THEN Or32(RegVal, FIR_CTRL_ENABLE_BIT)
                  ELSE And32(RegVal, Not32(FIR_CTRL_ENABLE_BIT))
    IN  FIR_WriteReg(m1, InstancePtr.BaseAddress, FIR_REG_CTRL_OFFSET, NewVal)

\* FIR_SoftReset ending the pulse with a write of 0 instead of RegVal & ~CLEAR.
FIR_SoftReset_WriteZero(m, InstancePtr) ==
    LET Base   == InstancePtr.BaseAddress
        RegVal == FIR_ReadRegVal(m, Base, FIR_REG_CTRL_OFFSET)
        m1     == FIR_ReadReg(m, Base, FIR_REG_CTRL_OFFSET)
        m2     == FIR_WriteReg(m1, Base, FIR_REG_CTRL_OFFSET,
                               Or32(RegVal, FIR_CTRL_CLEAR_BIT))
    IN  FIR_WriteReg(m2, Base, FIR_REG_CTRL_OFFSET, {})

\* FIR_SoftReset that also zeroes tap 0, as a full reset would.
FIR_SoftReset_ClearsTap(m, InstancePtr) ==
    LET Base   == InstancePtr.BaseAddress
        RegVal == FIR_ReadRegVal(m, Base, FIR_REG_CTRL_OFFSET)
        m1     == FIR_ReadReg(m, Base, FIR_REG_CTRL_OFFSET)
        m2     == FIR_WriteReg(m1, Base, FIR_REG_CTRL_OFFSET,
                               Or32(RegVal, FIR_CTRL_CLEAR_BIT))
        m3     == FIR_WriteReg(m2, Base, FIR_REG_CTRL_OFFSET,
                               And32(RegVal, Not32(FIR_CTRL_CLEAR_BIT)))
    IN  FIR_WriteReg(m3, Base, FIR_MEM_COEFF_OFFSET, {})

\* FIR_SoftReset that raises CLEAR and never drives it low again.
FIR_SoftReset_NoRelease(m, InstancePtr) ==
    LET Base   == InstancePtr.BaseAddress
        RegVal == FIR_ReadRegVal(m, Base, FIR_REG_CTRL_OFFSET)
        m1     == FIR_ReadReg(m, Base, FIR_REG_CTRL_OFFSET)
    IN  FIR_WriteReg(m1, Base, FIR_REG_CTRL_OFFSET,
                     Or32(RegVal, FIR_CTRL_CLEAR_BIT))

FIR_SoftReset(m, InstancePtr) ==
    LET Base   == InstancePtr.BaseAddress
        RegVal == FIR_ReadRegVal(m, Base, FIR_REG_CTRL_OFFSET)
        m1     == FIR_ReadReg(m, Base, FIR_REG_CTRL_OFFSET)
        m2     == FIR_WriteReg(m1, Base, FIR_REG_CTRL_OFFSET,
                               Or32(RegVal, FIR_CTRL_CLEAR_BIT))
    IN  FIR_WriteReg(m2, Base, FIR_REG_CTRL_OFFSET,
                     And32(RegVal, Not32(FIR_CTRL_CLEAR_BIT)))

\* FIR_Init without the FIR_Enable(InstancePtr, 0) step.
FIR_Init_NoDisable(m, old, present, BaseAddress, NumTaps) ==
    IF ~present
    THEN [m |-> m, inst |-> old, ret |-> XST_FAILURE]
    ELSE LET InstancePtr == [BaseAddress |-> BaseAddress,
                             NumTaps     |-> NumTaps,
                             IsReady     |-> XIL_COMPONENT_IS_READY]
         IN  [m    |-> FIR_SoftReset(m, InstancePtr),
              inst |-> InstancePtr,
              ret  |-> XST_SUCCESS]

\* FIR_Init with the soft reset issued before the disable.
FIR_Init_ResetFirst(m, old, present, BaseAddress, NumTaps) ==
    IF ~present
    THEN [m |-> m, inst |-> old, ret |-> XST_FAILURE]
    ELSE LET InstancePtr == [BaseAddress |-> BaseAddress,
                             NumTaps     |-> NumTaps,
                             IsReady     |-> XIL_COMPONENT_IS_READY]
         IN  [m    |-> FIR_Enable(FIR_SoftReset(m, InstancePtr), InstancePtr, 0),
              inst |-> InstancePtr,
              ret  |-> XST_SUCCESS]

\* FIR_Init without the NULL check: it touches the hardware at BaseAddress
\* and reports success whatever InstancePtr is.
FIR_Init_NoNullCheck(m, old, present, BaseAddress, NumTaps) ==
    LET InstancePtr == [BaseAddress |-> BaseAddress,
                        NumTaps     |-> NumTaps,
                        IsReady     |-> XIL_COMPONENT_IS_READY]
    IN  [m    |-> FIR_SoftReset(FIR_Enable(m, InstancePtr, 0), InstancePtr),
         inst |-> IF present THEN InstancePtr ELSE old,
         ret  |-> XST_SUCCESS]

\* FIR_Init: the machine, the descriptor and the status it ends with.  old is
\* the descriptor's content at entry; present is InstancePtr != NULL.
FIR_Init(m, old, present, BaseAddress, NumTaps) ==
    IF ~present
    THEN [m |-> m, inst |-> old, ret |-> XST_FAILURE]
    ELSE LET InstancePtr == [BaseAddress |-> BaseAddress,
                             NumTaps     |-> NumTaps,
                             IsReady     |-> XIL_COMPONENT_IS_READY]
         IN  [m    |-> FIR_SoftReset(FIR_Enable(m, InstancePtr, 0), InstancePtr),
              inst |-> InstancePtr,
              ret  |-> XST_SUCCESS]

\* FIR_SetCoeff with the range check off by one (> for >=).
FIR_SetCoeff_OffByOne(m, InstancePtr, TapIndex, Value) ==
    IF TapIndex > InstancePtr.NumTaps
    THEN m
    ELSE LET Addr == CoeffAddr(InstancePtr.BaseAddress, TapIndex)
         IN  FIR_WriteReg(m, Addr, 0, S16ToU32(Value))

FIR_SetCoeff(m, InstancePtr, TapIndex, Value) ==
    IF TapIndex >= InstancePtr.NumTaps
    THEN m
    ELSE LET Addr == CoeffAddr(InstancePtr.BaseAddress, TapIndex)
         IN  FIR_WriteReg(m, Addr, 0, S16ToU32(Value))

\* FIR_GetCoeff with the range check off by one (> for >=).
FIR_GetCoeffVal_OffByOne(m, InstancePtr, TapIndex) ==
    IF TapIndex > InstancePtr.NumTaps
    THEN 0
    ELSE U32ToS16(FIR_ReadRegVal(m, CoeffAddr(InstancePtr.BaseAddress, TapIndex), 0))

\* FIR_GetCoeff whose bounds check lets index NumTaps through.
FIR_GetCoeff_OffByOne(m, InstancePtr, TapIndex) ==
    IF TapIndex > InstancePtr.NumTaps
    THEN m
    ELSE FIR_ReadReg(m, CoeffAddr(InstancePtr.BaseAddress, TapIndex), 0)

\* FIR_GetCoeff: the value returned, and the machine after the call.
FIR_GetCoeffVal(m, InstancePtr, TapIndex) ==
    IF TapIndex >= InstancePtr.NumTaps
    THEN 0
    ELSE U32ToS16(FIR_ReadRegVal(m, CoeffAddr(InstancePtr.BaseAddress, TapIndex), 0))

FIR_GetCoeff(m, InstancePtr, TapIndex) ==
    IF TapIndex >= InstancePtr.NumTaps
    THEN m
    ELSE FIR_ReadReg(m, CoeffAddr(InstancePtr.BaseAddress, TapIndex), 0)

RECURSIVE ClearLoop(_, _, _)
\* for (i = Limit; i < NumTaps; i++) FIR_SetCoeff(InstancePtr, i, 0);
ClearLoop(m, InstancePtr, i) ==
    IF i < InstancePtr.NumTaps
    THEN ClearLoop(FIR_SetCoeff(m, InstancePtr, i, 0), InstancePtr, i + 1)
    ELSE m

RECURSIVE LoadLoop(_, _, _, _, _)
\* for (i = 0; i < Limit; i++) FIR_SetCoeff(InstancePtr, i, CoeffArray[i]);
\* CoeffArray[i] of C is CoeffArray[i + 1] here.
LoadLoop(m, InstancePtr, CoeffArray, Limit, i) ==
    IF i < Limit
    THEN LoadLoop(FIR_SetCoeff(m, InstancePtr, i, CoeffArray[i + 1]),
                  InstancePtr, CoeffArray, Limit, i + 1)
    ELSE m

\* FIR_LoadConfig that re-enables the core whatever ENABLE was at entry.
FIR_LoadConfig_AlwaysEnable(m, InstancePtr, CoeffArray, Length) ==
    LET m1    == FIR_ReadReg(m, InstancePtr.BaseAddress, FIR_REG_CTRL_OFFSET)
        m2    == FIR_Enable(m1, InstancePtr, 0)
        Limit == IF Length < InstancePtr.NumTaps
                 THEN Length
                 ELSE InstancePtr.NumTaps
        m3    == ClearLoop(m2, InstancePtr, Limit)
        m4    == LoadLoop(m3, InstancePtr, CoeffArray, Limit, 0)
    IN  FIR_Enable(m4, InstancePtr, 1)

\* FIR_LoadConfig without the loop that clears the unused taps.
FIR_LoadConfig_NoPad(m, InstancePtr, CoeffArray, Length) ==
    LET CtrlReg    == FIR_ReadRegVal(m, InstancePtr.BaseAddress, FIR_REG_CTRL_OFFSET)
        m1         == FIR_ReadReg(m, InstancePtr.BaseAddress, FIR_REG_CTRL_OFFSET)
        WasEnabled == IF And32(CtrlReg, FIR_CTRL_ENABLE_BIT) # {} THEN 1 ELSE 0
        m2         == FIR_Enable(m1, InstancePtr, 0)
        Limit      == IF Length < InstancePtr.NumTaps
                      THEN Length
                      ELSE InstancePtr.NumTaps
        m4         == LoadLoop(m2, InstancePtr, CoeffArray, Limit, 0)
    IN  IF WasEnabled # 0 THEN FIR_Enable(m4, InstancePtr, 1) ELSE m4

\* FIR_LoadConfig that ends with a soft reset, to restart the filter cleanly.
FIR_LoadConfig_WithReset(m, InstancePtr, CoeffArray, Length) ==
    LET CtrlReg    == FIR_ReadRegVal(m, InstancePtr.BaseAddress, FIR_REG_CTRL_OFFSET)
        m1         == FIR_ReadReg(m, InstancePtr.BaseAddress, FIR_REG_CTRL_OFFSET)
        WasEnabled == IF And32(CtrlReg, FIR_CTRL_ENABLE_BIT) # {} THEN 1 ELSE 0
        m2         == FIR_Enable(m1, InstancePtr, 0)
        Limit      == IF Length < InstancePtr.NumTaps
                      THEN Length
                      ELSE InstancePtr.NumTaps
        m3         == ClearLoop(m2, InstancePtr, Limit)
        m4         == LoadLoop(m3, InstancePtr, CoeffArray, Limit, 0)
        m5         == IF WasEnabled # 0 THEN FIR_Enable(m4, InstancePtr, 1) ELSE m4
    IN  FIR_SoftReset(m5, InstancePtr)

\* FIR_LoadConfig that rewrites the taps without disabling the core first.
FIR_LoadConfig_NoDisable(m, InstancePtr, CoeffArray, Length) ==
    LET CtrlReg    == FIR_ReadRegVal(m, InstancePtr.BaseAddress, FIR_REG_CTRL_OFFSET)
        m1         == FIR_ReadReg(m, InstancePtr.BaseAddress, FIR_REG_CTRL_OFFSET)
        WasEnabled == IF And32(CtrlReg, FIR_CTRL_ENABLE_BIT) # {} THEN 1 ELSE 0
        Limit      == IF Length < InstancePtr.NumTaps
                      THEN Length
                      ELSE InstancePtr.NumTaps
        m3         == ClearLoop(m1, InstancePtr, Limit)
        m4         == LoadLoop(m3, InstancePtr, CoeffArray, Limit, 0)
    IN  IF WasEnabled # 0 THEN FIR_Enable(m4, InstancePtr, 1) ELSE m4

FIR_LoadConfig(m, InstancePtr, CoeffArray, Length) ==
    LET CtrlReg    == FIR_ReadRegVal(m, InstancePtr.BaseAddress, FIR_REG_CTRL_OFFSET)
        m1         == FIR_ReadReg(m, InstancePtr.BaseAddress, FIR_REG_CTRL_OFFSET)
        WasEnabled == IF And32(CtrlReg, FIR_CTRL_ENABLE_BIT) # {} THEN 1 ELSE 0
        m2         == FIR_Enable(m1, InstancePtr, 0)
        Limit      == IF Length < InstancePtr.NumTaps
                      THEN Length
                      ELSE InstancePtr.NumTaps
        m3         == ClearLoop(m2, InstancePtr, Limit)
        m4         == LoadLoop(m3, InstancePtr, CoeffArray, Limit, 0)
    IN  IF WasEnabled # 0 THEN FIR_Enable(m4, InstancePtr, 1) ELSE m4

\* ----------------------------------------------------------------- actions

NoArgs ==
    [op |-> "none", present |-> TRUE, base |-> 0, taps |-> 0, enable |-> 0,
     index |-> 0, value |-> 0, array |-> <<>>, length |-> 0]

Entry == [mem |-> mem, log |-> <<>>]

\* No call in progress. pc is the position in the running function; RegVal,
\* Enable, WasEnabled, Limit and i are the locals of the C functions; after is
\* where FIR_Enable returns to. irq, kind, fresh and was record history: what
\* an interrupt handler did since the last CTRL read of the call, which CTRL
\* write the call issued last, whether that write was the last step taken,
\* and what CTRL held just before it.
IdleCtx ==
    [pc |-> "idle", RegVal |-> {}, Enable |-> 0, WasEnabled |-> 0, Limit |-> 0,
     i |-> 0, after |-> "idle", irq |-> "none", kind |-> "none",
     fresh |-> FALSE, was |-> {}]

\* What every call does around its body: record the call and the state it
\* started from, and take the machine and the return value it ends with.
Finish(c, m, r, newInst) ==
    /\ call' = c
    /\ pre'  = [inst |-> inst, mem |-> mem]
    /\ mem'  = m.mem
    /\ log'  = m.log
    /\ ret'  = r
    /\ inst' = newInst
    /\ ctx'  = ctx

\* FIR_Init(InstancePtr, BaseAddress, NumTaps), InstancePtr NULL or not.
InitCall(BaseSet, TapSet) ==
    \E present \in BOOLEAN, b \in BaseSet, n \in TapSet :
        LET c == [NoArgs EXCEPT !.op = "init", !.present = present,
                                !.base = b, !.taps = n]
            r == FIR_Init(Entry, inst, present, b, n)
        IN  Finish(c, r.m, r.ret, r.inst)

\* A call of FIR_Enable that also stores into the descriptor it is given.
EnableCall_WritesDescriptor ==
    \E e \in {0, 1} :
        Finish([NoArgs EXCEPT !.op = "enable", !.enable = e],
               FIR_Enable(Entry, inst, e), 0, [inst EXCEPT !.NumTaps = e])

EnableCall ==
    \E e \in {0, 1} :
        Finish([NoArgs EXCEPT !.op = "enable", !.enable = e],
               FIR_Enable(Entry, inst, e), 0, inst)

SoftResetCall ==
    Finish([NoArgs EXCEPT !.op = "soft_reset"],
           FIR_SoftReset(Entry, inst), 0, inst)

SetCoeffCall(IndexSet, ValueSet) ==
    \E i \in IndexSet, v \in ValueSet :
        Finish([NoArgs EXCEPT !.op = "set_coeff", !.index = i, !.value = v],
               FIR_SetCoeff(Entry, inst, i, v), 0, inst)

GetCoeffCall(IndexSet) ==
    \E i \in IndexSet :
        Finish([NoArgs EXCEPT !.op = "get_coeff", !.index = i],
               FIR_GetCoeff(Entry, inst, i),
               FIR_GetCoeffVal(Entry, inst, i), inst)

LoadConfigCall ==
    \E A \in Arrays, L \in 0..MaxLen :
        Finish([NoArgs EXCEPT !.op = "load_config", !.array = A, !.length = L],
               FIR_LoadConfig(Entry, inst, A, L), 0, inst)

\* ---------------------------------------------------------- specifications

\* The register window at power-on: one CTRL value, slot patterns.
InitMem(c0) == [a \in AddrSpace |-> IF a \in CtrlAddrs THEN c0 ELSE InitWord(a)]

\* A descriptor before FIR_Init: its fields hold whatever the memory held.
InitState(BaseSet, TapSet, ReadySet, CtrlSet) ==
    /\ inst \in [BaseAddress : BaseSet, NumTaps : TapSet, IsReady : ReadySet]
    /\ \E c0 \in CtrlSet : mem = InitMem(c0)
    /\ call = NoArgs
    /\ pre  = [inst |-> inst, mem |-> mem]
    /\ log  = <<>>
    /\ ret  = 0
    /\ ctx  = IdleCtx

\* The general specification: any sequence of API calls on one descriptor.
Init == InitState({Base0}, TapCounts, {0, XIL_COMPONENT_IS_READY}, CtrlInit)

Next ==
    \/ InitCall({Base0}, TapCounts)
    \/ EnableCall
    \/ SoftResetCall
    \/ SetCoeffCall(Indices, Values)
    \/ GetCoeffCall(Indices)
    \/ LoadConfigCall

Spec == Init /\ [][Next]_vars

\* FIR_Init alone, over both base addresses and the scenarios' tap counts.
InitOnlyInit ==
    InitState(AllBases, TapCounts \cup ScenarioTaps,
              {0, XIL_COMPONENT_IS_READY}, CtrlInit)

InitOnlyNext == InitCall(AllBases, TapCounts \cup ScenarioTaps)

SpecInit == InitOnlyInit /\ [][InitOnlyNext]_vars

\* One FIR_SetCoeff call, over every signed 16-bit value, on a descriptor of
\* 1 or 8 taps: in range (indices 0 and 7) and out of range (7 and 8).
S16 == -32768..32767

CoeffInit == InitState({Base0}, ScenarioTaps, {XIL_COMPONENT_IS_READY}, {{0}})

CoeffNext == call.op = "none" /\ SetCoeffCall({0, 7, 8}, S16)

SpecCoeff == CoeffInit /\ [][CoeffNext]_vars

\* One FIR_SetCoeff call on a descriptor whose tap count FIR_Init took
\* unchecked: 8 taps, or 2^30 + 2 taps, with index 2^30 + 1 in range.
WideTaps    == {8, 1073741826}
WideIndices == {1, 3, 1073741825}
WideValues  == {-32768, -16384, -1, 0, 1, 4369, 32767}

WideInit == InitState({Base0}, WideTaps, {XIL_COMPONENT_IS_READY}, CtrlInit)

WideNext == call.op = "none" /\ SetCoeffCall(WideIndices, WideValues)

SpecWide == WideInit /\ [][WideNext]_vars

\* Any sequence of the other five operations on a descriptor that a
\* successful FIR_Init has just set up, whatever the descriptor and the CTRL
\* register held before.
ReadyInit ==
    \E old \in [BaseAddress : {Base0}, NumTaps : TapCounts,
                IsReady : {0, XIL_COMPONENT_IS_READY}],
       c0 \in CtrlInit, n \in TapCounts :
        LET r == FIR_Init([mem |-> InitMem(c0), log |-> <<>>], old, TRUE, Base0, n)
        IN  /\ inst = r.inst
            /\ mem  = r.m.mem
            /\ log  = r.m.log
            /\ ret  = r.ret
            /\ call = [NoArgs EXCEPT !.op = "init", !.base = Base0, !.taps = n]
            /\ pre  = [inst |-> old, mem |-> InitMem(c0)]
            /\ ctx  = IdleCtx

ReadyNext ==
    \/ EnableCall
    \/ SoftResetCall
    \/ SetCoeffCall(Indices, Values)
    \/ GetCoeffCall(Indices)
    \/ LoadConfigCall

SpecReady == ReadyInit /\ [][ReadyNext]_vars

\* ------------------------------------------------- calls one access at a time

\* FIR_Enable, FIR_SoftReset and FIR_LoadConfig run by the main context one
\* MMIO access per step, on a descriptor FIR_Init has set up, with an
\* interrupt handler that calls FIR_Enable or FIR_SoftReset on the same
\* descriptor between any two steps and runs to completion.

Cur == [mem |-> mem, log |-> log]

\* A step of the main context inside a call: machine m, context c.
Step(m, c) ==
    /\ mem' = m.mem
    /\ log' = m.log
    /\ ctx' = c
    /\ UNCHANGED <<inst, call, pre, ret>>

\* Entering a call: its record, the state it starts from, and its first
\* access, the read of CTRL into a local.
Start(c, x) ==
    /\ ctx.pc = "idle"
    /\ call' = c
    /\ pre'  = [inst |-> inst, mem |-> mem]
    /\ ret'  = 0
    /\ mem'  = mem
    /\ log'  = FIR_ReadReg(Entry, inst.BaseAddress, FIR_REG_CTRL_OFFSET).log
    /\ ctx'  = x
    /\ UNCHANGED inst

\* u32 RegVal = FIR_ReadReg(...) of FIR_Enable, called by the application.
StartEnable ==
    \E e \in {0, 1} :
        Start([NoArgs EXCEPT !.op = "enable", !.enable = e],
              [IdleCtx EXCEPT !.pc = "en_write", !.Enable = e,
                   !.RegVal = FIR_ReadRegVal(Entry, inst.BaseAddress, FIR_REG_CTRL_OFFSET)])

\* u32 RegVal = FIR_ReadReg(...) of FIR_Enable, called by FIR_LoadConfig.
EnableRead ==
    /\ ctx.pc = "en_read"
    /\ Step(FIR_ReadReg(Cur, inst.BaseAddress, FIR_REG_CTRL_OFFSET),
            [ctx EXCEPT !.pc = "en_write", !.irq = "none", !.fresh = FALSE,
                 !.RegVal = FIR_ReadRegVal(Cur, inst.BaseAddress, FIR_REG_CTRL_OFFSET)])

\* RegVal |= / &= ~FIR_CTRL_ENABLE_BIT; FIR_WriteReg(..., RegVal); return.
EnableWrite ==
    /\ ctx.pc = "en_write"
    /\ LET NewVal == IF ctx.Enable # 0
                     THEN Or32(ctx.RegVal, FIR_CTRL_ENABLE_BIT)
                     ELSE And32(ctx.RegVal, Not32(FIR_CTRL_ENABLE_BIT))
       IN  Step(FIR_WriteReg(Cur, inst.BaseAddress, FIR_REG_CTRL_OFFSET, NewVal),
                [ctx EXCEPT !.pc = ctx.after, !.i = ctx.Limit, !.kind = "enable",
                     !.fresh = TRUE,
                     !.was = FIR_ReadRegVal(Cur, inst.BaseAddress, FIR_REG_CTRL_OFFSET)])

\* u32 RegVal = FIR_ReadReg(Base, FIR_REG_CTRL_OFFSET) of FIR_SoftReset.
StartSoftReset ==
    Start([NoArgs EXCEPT !.op = "soft_reset"],
          [IdleCtx EXCEPT !.pc = "sr_set",
               !.RegVal = FIR_ReadRegVal(Entry, inst.BaseAddress, FIR_REG_CTRL_OFFSET)])

\* FIR_SoftReset's first write computed from a second read of CTRL made with
\* the write in one indivisible access.
SoftResetSet_Reread ==
    /\ ctx.pc = "sr_set"
    /\ LET Fresh == FIR_ReadRegVal(Cur, inst.BaseAddress, FIR_REG_CTRL_OFFSET)
       IN  Step(FIR_WriteReg(Cur, inst.BaseAddress, FIR_REG_CTRL_OFFSET,
                             Or32(Fresh, FIR_CTRL_CLEAR_BIT)),
                [ctx EXCEPT !.pc = "sr_release", !.kind = "set", !.fresh = TRUE,
                     !.was = Fresh])

\* FIR_WriteReg(Base, FIR_REG_CTRL_OFFSET, RegVal | FIR_CTRL_CLEAR_BIT).
SoftResetSet ==
    /\ ctx.pc = "sr_set"
    /\ Step(FIR_WriteReg(Cur, inst.BaseAddress, FIR_REG_CTRL_OFFSET,
                         Or32(ctx.RegVal, FIR_CTRL_CLEAR_BIT)),
            [ctx EXCEPT !.pc = "sr_release", !.kind = "set", !.fresh = TRUE,
                 !.was = FIR_ReadRegVal(Cur, inst.BaseAddress, FIR_REG_CTRL_OFFSET)])

\* FIR_WriteReg(Base, FIR_REG_CTRL_OFFSET, RegVal & ~FIR_CTRL_CLEAR_BIT).
SoftResetRelease ==
    /\ ctx.pc = "sr_release"
    /\ Step(FIR_WriteReg(Cur, inst.BaseAddress, FIR_REG_CTRL_OFFSET,
                         And32(ctx.RegVal, Not32(FIR_CTRL_CLEAR_BIT))),
            [ctx EXCEPT !.pc = "idle", !.kind = "release", !.fresh = TRUE,
                 !.was = FIR_ReadRegVal(Cur, inst.BaseAddress, FIR_REG_CTRL_OFFSET)])

\* u32 CtrlReg = FIR_ReadReg(...); u8 WasEnabled = ...; then FIR_Enable(.., 0)
\* is entered, with Limit = min(Length, NumTaps) to come.
StartLoadConfig ==
    \E A \in Arrays, L \in 0..MaxLen :
        LET CtrlReg == FIR_ReadRegVal(Entry, inst.BaseAddress, FIR_REG_CTRL_OFFSET)
        IN  Start([NoArgs EXCEPT !.op = "load_config", !.array = A, !.length = L],
                  [IdleCtx EXCEPT
                       !.pc = "en_read", !.Enable = 0, !.after = "lc_clear",
                       !.WasEnabled = IF And32(CtrlReg, FIR_CTRL_ENABLE_BIT) # {}
                                      THEN 1 ELSE 0,
                       !.Limit = IF L < inst.NumTaps THEN L ELSE inst.NumTaps])

\* for (i = Limit; i < NumTaps; i++) FIR_SetCoeff(InstancePtr, i, 0);
ClearStep ==
    /\ ctx.pc = "lc_clear"
    /\ IF ctx.i < inst.NumTaps
       THEN Step(FIR_SetCoeff(Cur, inst, ctx.i, 0),
                 [ctx EXCEPT !.i = ctx.i + 1, !.fresh = FALSE])
       ELSE Step(Cur, [ctx EXCEPT !.pc = "lc_load", !.i = 0, !.fresh = FALSE])

\* for (i = 0; i < Limit; i++) FIR_SetCoeff(InstancePtr, i, CoeffArray[i]);
\* if (WasEnabled) FIR_Enable(InstancePtr, 1);
LoadStep ==
    /\ ctx.pc = "lc_load"
    /\ IF ctx.i < ctx.Limit
       THEN Step(FIR_SetCoeff(Cur, inst, ctx.i, call.array[ctx.i + 1]),
                 [ctx EXCEPT !.i = ctx.i + 1, !.fresh = FALSE])
       ELSE Step(Cur, [ctx EXCEPT !.fresh = FALSE, !.Enable = 1, !.after = "idle",
                            !.pc = IF ctx.WasEnabled # 0 THEN "en_read" ELSE "idle"])

\* The interrupt handler: a whole FIR_Enable or FIR_SoftReset on the same
\* descriptor, between two steps of the main context.
Irq ==
    \E h \in {"disable", "enable", "soft_reset"} :
        /\ mem' = CASE h = "disable"    -> FIR_Enable(Entry, inst, 0).mem
                    [] h = "enable"     -> FIR_Enable(Entry, inst, 1).mem
                    [] h = "soft_reset" -> FIR_SoftReset(Entry, inst).mem
        /\ ctx' = [ctx EXCEPT !.irq = h, !.fresh = FALSE]
        /\ UNCHANGED <<inst, call, pre, log, ret>>

IrqNext ==
    \/ StartEnable
    \/ EnableRead
    \/ EnableWrite
    \/ StartSoftReset
    \/ SoftResetSet
    \/ SoftResetRelease
    \/ StartLoadConfig
    \/ ClearStep
    \/ LoadStep
    \/ Irq

SpecIrq == ReadyInit /\ [][IrqNext]_vars

\* ------------------------------------------------------------------ claims

\* The CTRL register of the descriptor the last call worked on.  FIR_Init
\* works on the descriptor it has just filled in.
CallBase == IF call.op = "init" THEN call.base ELSE pre.inst.BaseAddress
CtrlAddr == CallBase + FIR_REG_CTRL_OFFSET

\* CTRL when the last call started, and now.
CtrlBefore == pre.mem[CtrlAddr]
CtrlNow    == mem[CtrlAddr]

Rd(a, d) == [op |-> "R", addr |-> a, data |-> d]
Wr(a, d) == [op |-> "W", addr |-> a, data |-> d]

IsCtrlWrite(e) == e.op = "W" /\ e.addr = CtrlAddr

InitSucceeded == call.op = "init" /\ ret = XST_SUCCESS

\* C1: a successful init with N >= 1 issues, in this order, a CTRL write with
\* ENABLE=0, a CTRL write with CLEAR=1 and a CTRL write with CLEAR=0 (the two
\* pulse writes with ENABLE=0), accesses no coefficient register, and leaves
\* the descriptor ready with the base address and tap count of the call.
C1_InitQuiescence ==
    (InitSucceeded /\ call.taps >= 1) =>
        /\ \E i, j, k \in DOMAIN log :
              /\ i < j /\ j < k
              /\ IsCtrlWrite(log[i]) /\ 0 \notin log[i].data
              /\ IsCtrlWrite(log[j]) /\ 1 \in log[j].data /\ 0 \notin log[j].data
              /\ IsCtrlWrite(log[k]) /\ 1 \notin log[k].data /\ 0 \notin log[k].data
        /\ \A n \in DOMAIN log : log[n].addr = CtrlAddr
        /\ inst = [BaseAddress |-> call.base, NumTaps |-> call.taps,
                   IsReady |-> XIL_COMPONENT_IS_READY]

\* A successful init of 8 taps at the second base, from a running core whose
\* CLEAR bit reads 1, on a descriptor that held other values.
C1_Witness ==
    /\ InitSucceeded /\ call.taps = 8 /\ call.base = Base1
    /\ CtrlBefore = {0, 1}
    /\ pre.inst.IsReady = 0 /\ pre.inst.BaseAddress = Base0 /\ pre.inst.NumTaps = 0

\* C2 as stated: the complete log of init(base=0x4000_0000, N=8) is one CTRL
\* read followed by three CTRL writes of 0x0, 0x2, 0x0.
C2_Original ==
    (InitSucceeded /\ call.base = Base0 /\ call.taps = 8) =>
        /\ Len(log) = 4
        /\ log[1].op = "R" /\ log[1].addr = CtrlAddr
        /\ log[2] = Wr(CtrlAddr, Word(0))
        /\ log[3] = Wr(CtrlAddr, Word(2))
        /\ log[4] = Wr(CtrlAddr, Word(0))

\* C2 (amended): the complete log of a successful init is a CTRL read, a CTRL
\* write of c & ~ENABLE, a second CTRL read, and CTRL writes of
\* (c & ~ENABLE) | CLEAR and c & ~ENABLE & ~CLEAR, c being the value CTRL held;
\* for init(base=0x4000_0000, N=8) with CTRL holding 0x0 or 0x1 the values
\* written are 0x0, 0x2, 0x0.
C2_InitLog ==
    InitSucceeded =>
        LET c == CtrlBefore
            d == c \ {0}
        IN  /\ log = << Rd(CtrlAddr, c), Wr(CtrlAddr, d), Rd(CtrlAddr, d),
                        Wr(CtrlAddr, d \cup {1}), Wr(CtrlAddr, d \ {1}) >>
            /\ (call.base = Base0 /\ call.taps = 8 /\ c \in {Word(0), Word(1)}) =>
                  /\ log[2].data = Word(0)
                  /\ log[4].data = Word(2)
                  /\ log[5].data = Word(0)

\* init(base=0x4000_0000, N=8) with CTRL holding 0x1.
C2_Witness ==
    /\ InitSucceeded /\ call.base = Base0 /\ call.taps = 8
    /\ CtrlBefore = Word(1)
    /\ Len(log) = 5

\* C3: init fails exactly when the descriptor handle is absent; a failed init
\* performs no MMIO access and leaves every register as it was; with a
\* descriptor present it succeeds whatever the base address and tap count.
C3_InitFailsIffAbsent ==
    call.op = "init" =>
        /\ (ret = XST_FAILURE) <=> ~call.present
        /\ call.present => ret = XST_SUCCESS
        /\ ~call.present => (log = <<>> /\ mem = pre.mem)

\* A failed init, asked for 8 taps at the second base of a running core.
C3_Witness ==
    /\ call.op = "init" /\ ~call.present /\ ret = XST_FAILURE
    /\ call.base = Base1 /\ call.taps = 8
    /\ 0 \in CtrlBefore

\* C4: enable(b) performs exactly one CTRL read and one CTRL write; afterwards
\* bit 0 of CTRL is b and bits 1..31 are those CTRL held before; a second
\* enable(b) leaves CTRL as the first left it.
C4_EnableReadModifyWrite ==
    call.op = "enable" =>
        /\ log = << Rd(CtrlAddr, CtrlBefore), Wr(CtrlAddr, CtrlNow) >>
        /\ (0 \in CtrlNow) <=> (call.enable = 1)
        /\ CtrlNow \ {0} = CtrlBefore \ {0}
        /\ FIR_Enable([mem |-> mem, log |-> <<>>], inst, call.enable).mem = mem

\* enable(1) on a stopped core whose CLEAR and reserved bits read 1.
C4_Witness ==
    /\ call.op = "enable" /\ call.enable = 1
    /\ CtrlBefore = {1, 2, 31}
    /\ CtrlNow = {0, 1, 2, 31}

\* C5: soft_reset reads CTRL once, then writes c | CLEAR and c & ~CLEAR, c
\* being the value read (0x3 then 0x1 for c = 0x1); afterwards ENABLE and bits
\* 2..31 are those of c and CLEAR is 0.
C5_SoftResetPulse ==
    call.op = "soft_reset" =>
        LET c == CtrlBefore
        IN  /\ log = << Rd(CtrlAddr, c), Wr(CtrlAddr, c \cup {1}),
                        Wr(CtrlAddr, c \ {1}) >>
            /\ c = Word(1) => (log[2].data = Word(3) /\ log[3].data = Word(1))
            /\ CtrlNow \ {1} = c \ {1}
            /\ 1 \notin CtrlNow

\* soft_reset of a running core: CTRL held 0x1.
C5_Witness ==
    /\ call.op = "soft_reset"
    /\ CtrlBefore = Word(1)
    /\ CtrlNow = Word(1)

\* The register window now and when the last call started, as machines.
Now    == [mem |-> mem, log |-> <<>>]
Before == [mem |-> pre.mem, log |-> <<>>]

\* The coefficient registers of the descriptor the last call worked on.
TapRange    == 0..(pre.inst.NumTaps - 1)
CoeffWindow == {CoeffAddr(pre.inst.BaseAddress, i) : i \in 0..(MaxTaps + 8)}

\* C6: soft_reset leaves coefficient memory unchanged: get_coeff(i) returns
\* after it, for every i below the tap count, what it returned before it, and
\* soft_reset accesses no COEFF register.
C6_SoftResetKeepsCoeffs ==
    call.op = "soft_reset" =>
        /\ \A i \in TapRange :
              FIR_GetCoeffVal(Now, inst, i) = FIR_GetCoeffVal(Before, pre.inst, i)
        /\ \A n \in DOMAIN log : log[n].addr \notin CoeffWindow

\* soft_reset after set_coeff / load_config have written both taps.
C6_Witness ==
    /\ call.op = "soft_reset"
    /\ pre.inst.NumTaps = 2
    /\ FIR_GetCoeffVal(Before, pre.inst, 0) = -16384
    /\ FIR_GetCoeffVal(Now, inst, 0) = -16384
    /\ FIR_GetCoeffVal(Now, inst, 1) = 4369

C8_SetOutOfRangeNoOp ==
    (call.op = "set_coeff" /\ call.index >= pre.inst.NumTaps) =>
        /\ log = <<>>
        /\ mem = pre.mem
        /\ inst = pre.inst
        /\ ret = 0

\* set_coeff(N, v) for N = 2 taps.
C8_Witness ==
    /\ call.op = "set_coeff"
    /\ pre.inst.NumTaps = 2 /\ call.index = 2 /\ call.value = -16384
    /\ log = <<>>

\* C9: get_coeff(i) with i at or beyond the tap count returns 0 whatever the
\* registers hold, with at most one MMIO read and no MMIO write.
C9_GetOutOfRangeZero ==
    (call.op = "get_coeff" /\ call.index >= pre.inst.NumTaps) =>
        /\ ret = 0
        /\ Len(log) <= 1
        /\ \A n \in DOMAIN log : log[n].op = "R"
        /\ mem = pre.mem

\* get_coeff(N) for N = 1 tap, the register at index N holding a word whose
\* low 16 bits are not 0.
C9_Witness ==
    /\ call.op = "get_coeff"
    /\ pre.inst.NumTaps = 1 /\ call.index = 1
    /\ U32ToS16(pre.mem[CoeffAddr(pre.inst.BaseAddress, 1)]) # 0
    /\ ret = 0

\* The writes of the last call, in order.
IsWrite(e) == e.op = "W"
Writes == SelectSeq(log, IsWrite)

Min(a, b) == IF a < b THEN a ELSE b

\* The coefficient writes load_config(A, L) is to issue on N taps: zero at
\* indices lim..N-1, then A[0..lim-1] at indices 0..lim-1, lim = min(L, N).
PadWrites(base, lim, N) ==
    [k \in 1..(N - lim) |-> Wr(CoeffAddr(base, lim + k - 1), Word(0))]
ArrayWrites(base, A, lim) ==
    [k \in 1..lim |-> Wr(CoeffAddr(base, k - 1), S16ToU32(A[k]))]

\* C10: bulk load ordering: the writes of load_config(A, L) are, in order, one
\* CTRL write with ENABLE=0, zero writes to indices min(L,N)..N-1, writes of
\* A[0..min(L,N)-1] to indices 0..min(L,N)-1 in ascending order, and then a
\* CTRL write with ENABLE=1 if and only if ENABLE was high at entry.
C10_LoadOrdering ==
    call.op = "load_config" =>
        LET N   == pre.inst.NumTaps
            lim == Min(call.length, N)
            c   == CtrlBefore
        IN  Writes =
                << Wr(CtrlAddr, c \ {0}) >>
                \o PadWrites(pre.inst.BaseAddress, lim, N)
                \o ArrayWrites(pre.inst.BaseAddress, call.array, lim)
                \o (IF 0 \in c THEN << Wr(CtrlAddr, c \cup {0}) >> ELSE << >>)

\* load_config(A, 1) on 2 taps of a running core: one padding write, one
\* value, and the re-enable.
C10_Witness ==
    /\ call.op = "load_config" /\ call.length = 1
    /\ pre.inst.NumTaps = 2
    /\ 0 \in CtrlBefore
    /\ Len(Writes) = 4

\* The positions of the log at which the coefficient register of index i of
\* the descriptor is written.
WritesAt(i) ==
    {n \in DOMAIN log :
        log[n].op = "W" /\ log[n].addr = CoeffAddr(pre.inst.BaseAddress, i)}

CtrlValues ==
    << CtrlBefore >>
    \o [k \in 1..Len(SelectSeq(log, IsCtrlWrite)) |->
            SelectSeq(log, IsCtrlWrite)[k].data]

\* The positions of CtrlValues at which CLEAR goes from 0 to 1.
RisingEdges ==
    {k \in 2..Len(CtrlValues) : 1 \notin CtrlValues[k - 1] /\ 1 \in CtrlValues[k]}

\* C12: load_config leaves CTRL exactly as it found it, whatever the value at
\* entry, and never takes CLEAR from 0 to 1: it issues no soft reset.
C12_LoadKeepsCtrl ==
    call.op = "load_config" =>
        /\ CtrlNow = CtrlBefore
        /\ RisingEdges = {}

\* load_config on a running core whose reserved bits read 1, CLEAR low.
C12_Witness ==
    /\ call.op = "load_config"
    /\ CtrlBefore = {0, 2, 31}
    /\ Len(CtrlValues) = 3

\* The two's-complement encoding of a signed 16-bit value, as a number.
Encode16(v) == IF v < 0 THEN v + 65536 ELSE v

\* C13: for every tap count N and every index i < N, set_coeff(i, v) issues
\* exactly one write, at base + 0x10 + 4*i computed without wrap-around (so
\* that distinct in-range indices have distinct addresses), whose low 16 bits
\* encode v; set_coeff(3, -16384) at base 0x4000_0000 writes at 0x4000_001C
\* with low 16 bits 0xC000.
C13_AddressNoWrap ==
    (call.op = "set_coeff" /\ call.index < pre.inst.NumTaps) =>
        /\ Len(log) = 1
        /\ log[1].op = "W"
        /\ LET off == log[1].addr - pre.inst.BaseAddress - FIR_MEM_COEFF_OFFSET
           IN  off % 4 = 0 /\ off \div 4 = call.index
        /\ \A j \in WideIndices :
              (j < pre.inst.NumTaps /\ j # call.index) =>
                  CoeffAddr(pre.inst.BaseAddress, j) # log[1].addr
        /\ BitSum(log[1].data, 16) = Encode16(call.value)
        /\ (call.index = 3 /\ call.value = -16384) =>
              (log[1].addr = Base0 + 28 /\ BitSum(log[1].data, 16) = 49152)

\* C14: after init(desc, base, N), no call of enable, soft_reset, set_coeff,
\* get_coeff or load_config modifies the descriptor: across every such call
\* the base address, the tap count and the ready flag stay what they were, and
\* the ready flag is true.
C14_DescriptorImmutable ==
    [][inst.IsReady = XIL_COMPONENT_IS_READY /\ inst' = inst]_vars

\* A bulk load that rewrote both taps of a 2-tap core, following other calls,
\* with the descriptor still the one init built.
C14_Witness ==
    /\ call.op = "load_config" /\ call.length = 2
    /\ inst = [BaseAddress |-> Base0, NumTaps |-> 2,
               IsReady |-> XIL_COMPONENT_IS_READY]
    /\ 0 \in CtrlBefore
    /\ FIR_GetCoeffVal(Before, pre.inst, 0) # FIR_GetCoeffVal(Now, inst, 0)
    /\ FIR_GetCoeffVal(Before, pre.inst, 1) # FIR_GetCoeffVal(Now, inst, 1)

\* C20: after a successful init, in every sequence of enable, soft_reset,
\* set_coeff, get_coeff and load_config calls, the CLEAR bit of CTRL is 0
\* between calls; it is 1 only between the two writes of soft_reset, whose
\* CTRL values therefore go 0 -> 1 -> 0 with exactly one rising edge of CLEAR.
C20_ClearLowBetweenCalls ==
    /\ 1 \notin CtrlNow
    /\ call.op = "soft_reset" =>
          /\ Len(CtrlValues) = 3
          /\ 1 \notin CtrlValues[1] /\ 1 \in CtrlValues[2] /\ 1 \notin CtrlValues[3]
          /\ Cardinality(RisingEdges) = 1
    /\ call.op \in {"enable", "set_coeff", "get_coeff", "load_config"} =>
          \A k \in DOMAIN CtrlValues : 1 \notin CtrlValues[k]

\* A soft reset of a running core with reserved bits set, some calls after
\* init: one rising edge of CLEAR, and CLEAR low again.
C20_Witness ==
    /\ call.op = "soft_reset"
    /\ CtrlBefore = {0, 2, 31}
    /\ RisingEdges = {2}
    /\ CtrlNow = {0, 2, 31}

\* The accelerator's delay line as the register contract describes it, one
\* CTRL store at a time: dirty says the delay line may hold samples. A store
\* that takes CLEAR from 0 to 1 empties it; while ENABLE is 1 samples enter.
DelayLineStep(dirty, prev, cur) ==
    IF 1 \notin prev /\ 1 \in cur THEN 0 \in cur ELSE dirty \/ 0 \in cur

RECURSIVE DelayLineFrom(_, _, _)
DelayLineFrom(dirty, values, k) ==
    IF k > Len(values)
    THEN dirty
    ELSE DelayLineFrom(DelayLineStep(dirty, values[k - 1], values[k]), values, k + 1)

\* The delay line after CTRL has held values[1] and then been stored the rest.
DelayLine(dirty, values) == DelayLineFrom(dirty \/ 0 \in values[1], values, 2)

\* C15: with the delay line cleared by a 0-to-1 transition of CLEAR in the
\* values written to CTRL, a successful init leaves ENABLE = 0 and the delay
\* line empty, for every CTRL value and every delay-line content before the
\* call, a CTRL whose CLEAR bit is already 1 included.
C15_InitLeavesIdleClear ==
    InitSucceeded =>
        \A dirty \in BOOLEAN :
            /\ 0 \notin CtrlNow
            /\ ~DelayLine(dirty, CtrlValues)

\* The register window after the first k accesses of the last call.
RECURSIVE MemAt(_)
MemAt(k) ==
    IF k = 0
    THEN pre.mem
    ELSE IF log[k].op = "W"
         THEN [MemAt(k - 1) EXCEPT ![log[k].addr] = log[k].data]
         ELSE MemAt(k - 1)

\* The tap vector held by a register window.
TapVector(mm) == [i \in TapRange |-> mm[CoeffAddr(pre.inst.BaseAddress, i)]]

\* C16: during load_config every coefficient write is issued while ENABLE is
\* 0, and at every moment at which ENABLE is 1 (before the disabling write,
\* after the re-enabling write) the coefficient memory holds either the whole
\* vector from before the call or the whole new vector, never a mixture.
C16_NoMixedVector ==
    call.op = "load_config" =>
        \A k \in 0..Len(log) :
            /\ (k >= 1 /\ log[k].op = "W" /\ log[k].addr # CtrlAddr) =>
                  0 \notin MemAt(k - 1)[CtrlAddr]
            /\ 0 \in MemAt(k)[CtrlAddr] =>
                  \/ TapVector(MemAt(k)) = TapVector(pre.mem)
                  \/ TapVector(MemAt(k)) = TapVector(mem)

\* A bulk load on a running 2-tap core that replaces both taps: seven
\* accesses, ENABLE high at both ends and low in between.
C16_Witness ==
    /\ call.op = "load_config" /\ call.length = 3
    /\ pre.inst.NumTaps = 2
    /\ 0 \in CtrlBefore /\ 0 \in CtrlNow
    /\ Len(log) = 7
    /\ 0 \notin MemAt(3)[CtrlAddr]
    /\ \A i \in TapRange : TapVector(pre.mem)[i] # TapVector(mem)[i]

\* The tap count of the descriptor the last call worked on, and the byte
\* offsets of its coefficient slots.
CallTaps    == IF call.op = "init" THEN call.taps ELSE pre.inst.NumTaps
SlotOffsets == {FIR_MEM_COEFF_OFFSET + 4 * i : i \in 0..(CallTaps - 1)}

\* The coefficient writes of the last call, in order.
IsCoeffWrite(e) == e.op = "W" /\ e.addr # CtrlAddr
CoeffWrites == SelectSeq(log, IsCoeffWrite)

\* C17: every MMIO access of every operation on a descriptor with base B and
\* tap count N targets CTRL (B + 0x00) or a coefficient slot B + 0x10 + 4*i
\* with i < N; load_config with L > N writes only the first N values of the
\* array, writes nothing at offset >= 0x10 + 4*N, and reads no element A[i]
\* with i >= N (the call on the array cut to its first N elements is the same).
C17_AccessWindow ==
    /\ \A n \in DOMAIN log :
          \/ log[n].addr = CallBase
          \/ (log[n].addr - CallBase) \in SlotOffsets
    /\ (call.op = "load_config" /\ call.length > CallTaps) =>
          /\ CoeffWrites =
                [k \in 1..CallTaps |->
                    Wr(CallBase + FIR_MEM_COEFF_OFFSET + 4 * (k - 1),
                       S16ToU32(call.array[k]))]
          /\ \A n \in DOMAIN Writes :
                Writes[n].addr - CallBase < FIR_MEM_COEFF_OFFSET + 4 * CallTaps
          /\ FIR_LoadConfig(Before, pre.inst,
                            SubSeq(call.array, 1, CallTaps), call.length)
                = [mem |-> mem, log |-> log]

\* A bulk load of three values on a 1-tap core: one coefficient write, of the
\* first value.
C17_Witness ==
    /\ call.op = "load_config" /\ call.length = 3
    /\ pre.inst.NumTaps = 1
    /\ Len(CoeffWrites) = 1
    /\ CoeffWrites[1].data = S16ToU32(call.array[1])
    /\ call.array[1] # call.array[2]

\* Bits 2..31 of a CTRL word.
Reserved(w) == w \ {0, 1}

\* C18 as stated: every value the driver writes to CTRL has bits 2..31 equal
\* to 0, whatever the preceding CTRL read returned.
C18_Original ==
    \A n \in DOMAIN log : IsCtrlWrite(log[n]) => Reserved(log[n].data) = {}

\* C18 (amended): every value the driver writes to CTRL has bits 2..31 equal
\* to those returned by the CTRL read that precedes it in the same call:
\* enable, soft_reset, init and load_config write the reserved bits back as
\* read, without masking them.
C18_ReservedWrittenBack ==
    \A n \in DOMAIN log :
        IsCtrlWrite(log[n]) =>
            /\ \E k \in 1..(n - 1) :
                  /\ log[k].op = "R" /\ log[k].addr = CtrlAddr
                  /\ Reserved(log[k].data) = Reserved(log[n].data)
            /\ Reserved(log[n].data) = Reserved(CtrlBefore)

\* A successful init on a core whose CTRL read 0x8000_0006: three CTRL
\* writes, bits 2 and 31 still set at the end.
C18_Witness ==
    /\ InitSucceeded
    /\ CtrlBefore = {1, 2, 31}
    /\ Len(Writes) = 3
    /\ CtrlNow = {2, 31}

\* The bit a CTRL write of the main context is meant to change.
Target == IF ctx.kind = "enable" THEN FIR_CTRL_ENABLE_BIT ELSE FIR_CTRL_CLEAR_BIT

\* C19: the read-modify-write of CTRL is atomic only with a single context.
\* Right after a CTRL write of an enable, soft_reset or load_config call, every
\* bit of CTRL but the one the write is meant to change is what the call's
\* CTRL read returned: if an interrupt handler calling enable or soft_reset
\* changed such a bit between that read and the write, its change is
\* overwritten (a lost update); if no second context ran between the read and
\* the write, the write changes nothing but its own bit.
C19_LostUpdate ==
    ctx.fresh =>
        /\ CtrlNow \ Target = ctx.RegVal \ Target
        /\ ctx.kind = "enable"  => (0 \in CtrlNow <=> ctx.Enable # 0)
        /\ ctx.kind = "set"     => 1 \in CtrlNow
        /\ ctx.kind = "release" => 1 \notin CtrlNow
        /\ (ctx.irq # "none" /\ ctx.was \ Target # ctx.RegVal \ Target) =>
              CtrlNow \ Target # ctx.was \ Target
        /\ ctx.irq = "none" => CtrlNow \ Target = ctx.was \ Target

\* A soft reset of a running core during which the interrupt handler disabled
\* the core: the last write of the pulse puts ENABLE back to 1.
C19_Witness ==
    /\ call.op = "soft_reset" /\ ctx.pc = "idle"
    /\ ctx.fresh /\ ctx.irq = "disable"
    /\ 0 \notin ctx.was
    /\ 0 \in CtrlNow

====
